---- MODULE Spec2Model ----
(***************************************************************************)
(* SnmpLibrary (src/src/SnmpLibrary/__init__.py): a Robot Framework        *)
(* keyword library wrapping pysnmp's one-liner command generator.          *)
(*                                                                         *)
(* The model follows the statements of the source in order.  A Python      *)
(* string is a sequence of one-character strings; a Python exception is     *)
(* an outcome record naming its class and message.  The call of            *)
(* CommandGenerator.getCmd / setCmd is the transport exchange: the model   *)
(* records its arguments in `sent` and takes the agent's answer from a     *)
(* bounded set.                                                           *)
(*                                                                         *)
(* Line 122 of the source lacks the parenthesis closing RuntimeError(...);  *)
(* the model reads the statement as closed at the end of that line.        *)
(***************************************************************************)
EXTENDS Integers, Sequences, FiniteSets, TLC

VARIABLES
    host,       \* self._host
    port,       \* self._port (attribute absent until set_host)
    community,  \* self._community (attribute absent until set_community_string)
    mibPath,    \* the MIB builder's search path (getMibPath / setMibPath)
    loaded,     \* MIB modules loaded into the builder (loadModules)
    last,       \* the most recent keyword call: its name and arguments
    outcome,    \* how that call ended: a return value or an exception
    sent,       \* the exchanges that call handed to the command generator
    response,   \* the agent's answer to that exchange
    hist        \* history of the arguments of the configuration calls

vars == <<host, port, community, mibPath, loaded, last, outcome, sent, response, hist>>

(***************************************************************************)
(* Bounds of the model.                                                    *)
(***************************************************************************)
MaxLen == 4      \* longest OID expression given to _parse_oid on its own
MaxAdds == 2     \* number of add_mib_search_path calls in one run

(***************************************************************************)
(* Python values.                                                          *)
(***************************************************************************)
None == "None"

\* An instance attribute: absent until a method assigns it.
NoAttr == [bound |-> FALSE]
Attr(v) == [bound |-> TRUE, v |-> v]
HasAttr(a) == a.bound

Return(v) == [status |-> "returned", value |-> v]
Raise(exc, msg, detail) == [status |-> "raised", exc |-> exc, msg |-> msg, detail |-> detail]

IsRaised(o) == o.status = "raised"

(***************************************************************************)
(* Strings as sequences of characters.                                     *)
(***************************************************************************)
Alphabet == {".", ":", "0", "1", "s", "-"}
Digits == {"0", "1"}

RECURSIVE StringsOfLen(_)
StringsOfLen(n) ==
    IF n = 0 THEN {<<>>}
    ELSE {Append(s, c) : s \in StringsOfLen(n - 1), c \in Alphabet}

StringsUpTo(n) == UNION {StringsOfLen(k) : k \in 1..n}

DigitValue(c) == IF c = "1" THEN 1 ELSE 0

RECURSIVE DecimalValue(_)
DecimalValue(s) ==
    IF s = <<>> THEN 0
    ELSE 10 * DecimalValue(SubSeq(s, 1, Len(s) - 1)) + DigitValue(s[Len(s)])

AllDigits(s) == Len(s) > 0 /\ \A k \in 1..Len(s) : s[k] \in Digits

\* int(i) accepts an optional sign followed by decimal digits (over Alphabet).
IntLiteral(s) ==
    \/ AllDigits(s)
    \/ Len(s) > 1 /\ s[1] = "-" /\ AllDigits(Tail(s))

IntOf(s) == IF s[1] = "-" THEN 0 - DecimalValue(Tail(s)) ELSE DecimalValue(s)

\* try_int: int(i), and i itself when int raises ValueError.
try_int(s) ==
    IF IntLiteral(s) THEN [t |-> "int", i |-> IntOf(s)] ELSE [t |-> "str", s |-> s]

\* The index of the first "::" in s, or 0.
RECURSIVE FindSep2(_, _)
FindSep2(s, k) ==
    IF k + 1 > Len(s) THEN 0
    ELSE IF s[k] = ":" /\ s[k + 1] = ":" THEN k
    ELSE FindSep2(s, k + 1)

\* The index of the first "." in s at or after k, or 0.
RECURSIVE FindDot(_, _)
FindDot(s, k) ==
    IF k > Len(s) THEN 0
    ELSE IF s[k] = "." THEN k
    ELSE FindDot(s, k + 1)

\* s.split('.'): every dot separates, empty pieces are kept.
RECURSIVE SplitDots(_)
SplitDots(s) ==
    LET d == FindDot(s, 1) IN
    IF d = 0 THEN <<s>>
    ELSE <<SubSeq(s, 1, d - 1)>> \o SplitDots(SubSeq(s, d + 1, Len(s)))

\* s.split('.', 1): at most one split, at the first dot.
SplitDot1(s) ==
    LET d == FindDot(s, 1) IN
    IF d = 0 THEN <<s>>
    ELSE <<SubSeq(s, 1, d - 1), SubSeq(s, d + 1, Len(s))>>

MapTryInt(segs) == [k \in 1..Len(segs) |-> try_int(segs[k])]

(***************************************************************************)
(* _parse_oid (lines 74-98).                                               *)
(***************************************************************************)
SymbolicOid(mib, sym) ==
    LET parts == SplitDot1(sym) IN
    IF Len(parts) # 2
    THEN Raise("ValueError", "need more than 1 value to unpack", <<>>)
    ELSE Return(<<[t |-> "sym", mib |-> mib, sym |-> parts[1]]>>
                \o MapTryInt(SplitDots(parts[2])))

_parse_oid(oid) ==
    LET c == FindSep2(oid, 1) IN
    IF c # 0
    THEN SymbolicOid(SubSeq(oid, 1, c - 1), SubSeq(oid, c + 2, Len(oid)))
    ELSE IF Len(oid) > 0 /\ oid[1] = "."
    THEN Return(MapTryInt(SplitDots(Tail(oid))))
    ELSE SymbolicOid(<<>>, oid)

(***************************************************************************)
(* Inputs of the keyword calls.                                            *)
(***************************************************************************)
DefaultPort == 161     \* set_host(self, host, port=161)
SetCmdPort == 161      \* the port set() hands to UdpTransportTarget

Hosts == {"10.0.111.112"}
PortArgs == {[given |-> FALSE, port |-> DefaultPort], [given |-> TRUE, port |-> 1161]}
Communities == {"public", "private"}
Paths == {"/usr/share/mibs", "/opt/mibs", "/nonexistent"}
ExistingPaths == {"/usr/share/mibs", "/opt/mibs"}
AvailableMibs == {"SNMPv2-MIB"}
MibNameArgs == {<<>>, <<"SNMPv2-MIB">>}

\* OID expressions given to the requests: ".1.0", "s.0" and "s".
RequestOids == {<<".", "1", ".", "0">>, <<"s", ".", "0">>, <<"s">>}
\* Positional arguments given to set_octetstring: (value) and (oid, value).
OctetStringArgs == {<<<<"s">>>>, <<<<".", "1", ".", "0">>, <<"s">>>>}
\* Raw values given to the set_<type> keywords: "10" and "-1".
RawValues == {<<"1", "0">>, <<"-", "1">>}
\* Already typed values given to set.
TypedValues == {[tag |-> "Gauge32", i |-> 10]}

NullValue == [tag |-> "Null", s |-> <<>>]
ErrorIndications == {None, "requestTimedOut"}
ErrorStatuses == {0, 2}
StatusText(es) == IF es = 2 THEN "noSuchName" ELSE "noError"
GetResponses ==
    [ei : ErrorIndications, es : ErrorStatuses,
     val : {NullValue, [tag |-> "OctetString", s |-> <<"s">>]}]
SetResponses ==
    [ei : ErrorIndications, es : ErrorStatuses, val : {NullValue}]

(***************************************************************************)
(* Names bound at module level (lines 7-24): what a bare name that is no   *)
(* local of the method resolves against.                                   *)
(***************************************************************************)
GlobalNames ==
    {"os", "builder", "engine", "cmdgen", "univ", "rfc1902",
     "_SnmpConnection", "try_int", "SnmpLibrary"}
NameBound(locals, n) == n \in locals \/ n \in GlobalNames
NameError(n) == Raise("NameError", "global name is not defined", <<n>>)
AttributeError(n) == Raise("AttributeError", "SnmpLibrary instance has no attribute", <<n>>)

\* What a call did besides changing the session: its outcome, the exchanges
\* it issued and the answers they got.
NoExchange(o) == [outcome |-> o, sent |-> <<>>, response |-> <<>>]
\* The call reached getCmd / setCmd with request x; its outcome is decided by
\* the answer.
Exchange(x) == [outcome |-> Return(<<>>), sent |-> <<x>>, response |-> <<>>]

(***************************************************************************)
(* __init__ (lines 26-30): _host is None; _port and _community are not     *)
(* assigned.                                                               *)
(***************************************************************************)
InitHost == None
InitPort == NoAttr
InitCommunity_default == Attr("public")
InitCommunity == NoAttr
\* The search path the engine's MIB builder starts with.
InitialMibPath == <<"<pysnmp mibs>">>

Init ==
    /\ host = InitHost
    /\ port = InitPort
    /\ community = InitCommunity
    /\ mibPath = InitialMibPath
    /\ loaded = {}
    /\ last = [op |-> "__init__", args |-> <<>>]
    /\ outcome = Return(<<>>)
    /\ sent = <<>>
    /\ response = <<>>
    /\ hist = [set_host |-> <<>>, set_community_string |-> <<>>,
               add_mib_search_path |-> <<>>]

Finish(op, args, r) ==
    /\ last' = [op |-> op, args |-> args]
    /\ outcome' = r.outcome
    /\ sent' = r.sent
    /\ response' = r.response

(***************************************************************************)
(* set_host (lines 32-34), set_community_string (lines 36-37).             *)
(***************************************************************************)
set_host(h, p) ==
    /\ host' = h
    /\ port' = Attr(p.port)
    /\ hist' = [hist EXCEPT !.set_host = <<[host |-> h, port |-> p]>>]
    /\ Finish("set_host", <<h, p>>, NoExchange(Return(<<>>)))
    /\ UNCHANGED <<community, mibPath, loaded>>

set_community_string(c) ==
    /\ community' = Attr(c)
    /\ hist' = [hist EXCEPT !.set_community_string = <<c>>]
    /\ Finish("set_community_string", <<c>>, NoExchange(Return(<<>>)))
    /\ UNCHANGED <<host, port, mibPath, loaded>>

(***************************************************************************)
(* add_mib_search_path (lines 39-53).                                      *)
(***************************************************************************)
PathExists(path) == path \in ExistingPaths

\* paths += (path, )
NewPaths_prepend(paths, path) == <<path>> \o paths
NewPaths(paths, path) == Append(paths, path)

add_mib_search_path(path) ==
    /\ Len(hist.add_mib_search_path) < MaxAdds
    /\ hist' = [hist EXCEPT !.add_mib_search_path = Append(@, path)]
    /\ IF ~PathExists(path)
       THEN /\ mibPath' = mibPath
            /\ Finish("add_mib_search_path", <<path>>,
                      NoExchange(Raise("RuntimeError", "Path does not exist", <<path>>)))
       ELSE /\ mibPath' = NewPaths(mibPath, path)
            /\ Finish("add_mib_search_path", <<path>>, NoExchange(Return(<<>>)))
    /\ UNCHANGED <<host, port, community, loaded>>

(***************************************************************************)
(* preload_mibs (lines 55-72): loadModules loads the named modules,    *)
(* and every available module when no name is given.                      *)
(***************************************************************************)
Range(seq) == {seq[k] : k \in 1..Len(seq)}

preload_mibs(names) ==
    /\ loaded' = loaded \cup (IF Len(names) = 0 THEN AvailableMibs ELSE Range(names))
    /\ Finish("preload_mibs", names, NoExchange(Return(<<>>)))
    /\ UNCHANGED <<host, port, community, mibPath, hist>>

(***************************************************************************)
(* get (lines 100-133).                                                    *)
(***************************************************************************)
\* not self._host
HostMissing_emptyOnly(h) == h = ""
HostMissing(h) == h = None \/ h = ""

\* Lines 121-133: what get makes of the answer.  `Null` is no local of get
\* and no module-level name, so evaluating line 121 raises NameError.
GetResult(resp, oid) ==
    IF ~NameBound({"self", "oid", "error_indication", "error_status", "_", "var"}, "Null")
    THEN NameError("Null")
    ELSE IF resp.ei # "Null"
    THEN Raise("RuntimeError", "SNMP GET failed", <<resp.ei>>)
    ELSE IF resp.es # 0
    THEN Raise("RuntimeError", "SNMP GET failed", <<StatusText(resp.es)>>)
    ELSE IF resp.val = NullValue
    THEN Raise("RuntimeError", "Object with OID not found", oid)
    ELSE Return(resp.val)

\* Lines 110-119, up to the call of getCmd: the arguments are evaluated in
\* order, self._community before self._host and self._port.
getRequest(oid) ==
    IF HostMissing(host)
    THEN NoExchange(Raise("RuntimeError", "No host set", <<>>))
    ELSE LET p == _parse_oid(oid) IN
         IF IsRaised(p) THEN NoExchange(p)
         ELSE IF ~HasAttr(community) THEN NoExchange(AttributeError("_community"))
         ELSE IF ~HasAttr(port) THEN NoExchange(AttributeError("_port"))
         ELSE Exchange([kind |-> "GET", community |-> community.v, host |-> host,
                        port |-> port.v, oid |-> p.value])

get(oid) ==
    /\ LET r == getRequest(oid) IN
       IF r.sent = <<>>
       THEN Finish("get", <<oid>>, r)
       ELSE \E resp \in GetResponses :
               Finish("get", <<oid>>,
                      [r EXCEPT !.outcome = GetResult(resp, r.sent[1].oid),
                                !.response = <<resp>>])
    /\ UNCHANGED <<host, port, community, mibPath, loaded, hist>>

(***************************************************************************)
(* set (lines 135-160).                                                    *)
(***************************************************************************)
\* Lines 159-160: only the error status is looked at.
SetResult(resp) ==
    IF resp.es # 0
    THEN Raise("RuntimeError", "SNMP SET failed", <<StatusText(resp.es)>>)
    ELSE Return(<<>>)

\* Lines 149-157, up to the call of setCmd.
setRequest(oid, value) ==
    LET p == _parse_oid(oid) IN
    IF IsRaised(p) THEN NoExchange(p)
    ELSE IF ~HasAttr(community) THEN NoExchange(AttributeError("_community"))
    ELSE Exchange([kind |-> "SET", community |-> community.v, host |-> host,
                   port |-> SetCmdPort, oid |-> p.value, value |-> value])

\* self.set(...) as the last statement of a keyword: the keyword ends as set ends.
EndWithSet(op, args, r) ==
    IF r.sent = <<>>
    THEN Finish(op, args, r)
    ELSE \E resp \in SetResponses :
            Finish(op, args, [r EXCEPT !.outcome = SetResult(resp), !.response = <<resp>>])

set(oid, value) ==
    /\ EndWithSet("set", <<oid, value>>, setRequest(oid, value))
    /\ UNCHANGED <<host, port, community, mibPath, loaded, hist>>

(***************************************************************************)
(* convert_to_<type> (lines 162-192): the rfc1902 constructor of the type, *)
(* which coerces a string to a number and checks the type's range.  The    *)
(* upper limits of the ranges lie beyond every raw value considered here.  *)
(***************************************************************************)
UnsignedTags == {"Counter32", "Counter64", "Gauge32", "Unsigned32", "TimeTicks"}

rfc1902(tag, value) ==
    IF tag = "OctetString" THEN Return([tag |-> tag, s |-> value])
    ELSE IF ~IntLiteral(value)
    THEN Raise("PyAsn1Error", "Can't coerce into integer", value)
    ELSE IF tag \in UnsignedTags /\ IntOf(value) < 0
    THEN Raise("ValueConstraintError", "ValueRangeConstraint failed", value)
    ELSE Return([tag |-> tag, i |-> IntOf(value)])

convert_to_octetstring(value) == rfc1902("OctetString", value)
convert_to_integer(value) == rfc1902("Integer", value)
convert_to_integer32(value) == rfc1902("Integer32", value)
convert_to_counter32(value) == rfc1902("Counter32", value)
convert_to_counter64(value) == rfc1902("Counter64", value)
convert_to_gauge32(value) == rfc1902("Gauge32", value)
convert_to_unsigned32(value) == rfc1902("Unsigned32", value)
convert_to_timeticks(value) == rfc1902("TimeTicks", value)

(***************************************************************************)
(* set_<type> (lines 194-274): convert, then self.set(oid, value).         *)
(***************************************************************************)
ThenSet(converted, oid) ==
    IF IsRaised(converted) THEN NoExchange(converted)
    ELSE setRequest(oid, converted.value)

\* def set_octetstring(self, value): one argument besides self; `oid` in its
\* body is neither a local nor a module-level name.
set_octetstringRequest(args) ==
    IF Len(args) # 1
    THEN NoExchange(Raise("TypeError", "set_octetstring() takes exactly 2 arguments", <<>>))
    ELSE LET value == convert_to_octetstring(args[1]) IN
         IF IsRaised(value) THEN NoExchange(value)
         ELSE IF ~NameBound({"self", "value"}, "oid") THEN NoExchange(NameError("oid"))
         ELSE setRequest(args[1], value.value)

set_octetstring(args) ==
    /\ EndWithSet("set_octetstring", args, set_octetstringRequest(args))
    /\ UNCHANGED <<host, port, community, mibPath, loaded, hist>>

set_integer(oid, value) ==
    /\ EndWithSet("set_integer", <<oid, value>>, ThenSet(convert_to_integer(value), oid))
    /\ UNCHANGED <<host, port, community, mibPath, loaded, hist>>

set_integer32(oid, value) ==
    /\ EndWithSet("set_integer32", <<oid, value>>, ThenSet(convert_to_integer32(value), oid))
    /\ UNCHANGED <<host, port, community, mibPath, loaded, hist>>

set_counter32(oid, value) ==
    /\ EndWithSet("set_counter32", <<oid, value>>, ThenSet(convert_to_counter32(value), oid))
    /\ UNCHANGED <<host, port, community, mibPath, loaded, hist>>

set_counter64(oid, value) ==
    /\ EndWithSet("set_counter64", <<oid, value>>, ThenSet(convert_to_counter64(value), oid))
    /\ UNCHANGED <<host, port, community, mibPath, loaded, hist>>

set_gauge32(oid, value) ==
    /\ EndWithSet("set_gauge32", <<oid, value>>, ThenSet(convert_to_gauge32(value), oid))
    /\ UNCHANGED <<host, port, community, mibPath, loaded, hist>>

set_unsigned32(oid, value) ==
    /\ EndWithSet("set_unsigned32", <<oid, value>>, ThenSet(convert_to_unsigned32(value), oid))
    /\ UNCHANGED <<host, port, community, mibPath, loaded, hist>>

set_timeticks(oid, value) ==
    /\ EndWithSet("set_timeticks", <<oid, value>>, ThenSet(convert_to_timeticks(value), oid))
    /\ UNCHANGED <<host, port, community, mibPath, loaded, hist>>

(***************************************************************************)
(* The keyword calls a test can make, in any order.                        *)
(***************************************************************************)
Next ==
    \/ \E h \in Hosts, p \in PortArgs : set_host(h, p)
    \/ \E c \in Communities : set_community_string(c)
    \/ \E path \in Paths : add_mib_search_path(path)
    \/ \E names \in MibNameArgs : preload_mibs(names)
    \/ \E oid \in RequestOids : get(oid)
    \/ \E oid \in RequestOids, v \in TypedValues : set(oid, v)
    \/ \E args \in OctetStringArgs : set_octetstring(args)
    \/ \E oid \in RequestOids, raw \in RawValues :
          \/ set_integer(oid, raw)
          \/ set_integer32(oid, raw)
          \/ set_counter32(oid, raw)
          \/ set_counter64(oid, raw)
          \/ set_gauge32(oid, raw)
          \/ set_unsigned32(oid, raw)
          \/ set_timeticks(oid, raw)

Spec == Init /\ [][Next]_vars

(***************************************************************************)
(* _parse_oid on its own, over every non-empty string of at most MaxLen     *)
(* characters.                                                             *)
(***************************************************************************)
ParseOid(oid) ==
    /\ last.op = "__init__"
    /\ Finish("_parse_oid", <<oid>>, NoExchange(_parse_oid(oid)))
    /\ UNCHANGED <<host, port, community, mibPath, loaded, hist>>

NextParse == \E oid \in StringsUpTo(MaxLen) : ParseOid(oid)

SpecParse == Init /\ [][NextParse]_vars

(***************************************************************************)
(* Properties.                                                             *)
(***************************************************************************)
SetTypeOps ==
    {"set_octetstring", "set_integer", "set_integer32", "set_counter32",
     "set_counter64", "set_gauge32", "set_unsigned32", "set_timeticks"}
RequestOps == {"get", "set"} \cup SetTypeOps

NoHostSet == Raise("RuntimeError", "No host set", <<>>)
RaisedWith(o, exc, msg) == o.status = "raised" /\ o.exc = exc /\ o.msg = msg

\* C1: while set_host has never been called, a get fails with the
\* not-configured error ('No host set') and issues no exchange, whatever the
\* OID string.
C1_GetBeforeSetHost ==
    (last.op = "get" /\ hist.set_host = <<>>) => (outcome = NoHostSet /\ sent = <<>>)

C1_Witness ==
    /\ last.op = "get"
    /\ hist.set_host = <<>>
    /\ hist.set_community_string # <<>>
    /\ outcome = NoHostSet
    /\ sent = <<>>

\* C2: while set_host has never been called no request of either kind (get,
\* set, set_<type>) issues an exchange: a set that gets as far as its request
\* fails with the not-configured error instead of sending it.
C2_NoRequestBeforeSetHost ==
    hist.set_host = <<>> => sent = <<>>

\* C3: the MIB search path is the initial path followed by the arguments of
\* the add_mib_search_path calls that named an existing path, in call order;
\* a call naming a nonexistent path fails, a call naming an existing one
\* returns.
C3_MibSearchPath ==
    /\ mibPath = InitialMibPath \o SelectSeq(hist.add_mib_search_path, PathExists)
    /\ last.op = "add_mib_search_path" =>
          IF PathExists(last.args[1])
          THEN outcome.status = "returned"
          ELSE RaisedWith(outcome, "RuntimeError", "Path does not exist")

C3_Witness ==
    /\ last.op = "add_mib_search_path"
    /\ ~PathExists(last.args[1])
    /\ outcome.status = "raised"
    /\ Len(hist.add_mib_search_path) = 2
    /\ Len(mibPath) = Len(InitialMibPath) + 1

\* C4: the outcome of a get that got an answer is decided in this order: a
\* non-null error indication is a transport error, else a non-zero error
\* status is an agent error, else a Null value is an object-not-found error
\* naming the OID, else the value is returned.
C4_GetOutcomeOrder ==
    (last.op = "get" /\ sent # <<>>) =>
        LET r == response[1] IN
        outcome =
            IF r.ei # None THEN Raise("RuntimeError", "SNMP GET failed", <<r.ei>>)
            ELSE IF r.es # 0
            THEN Raise("RuntimeError", "SNMP GET failed", <<StatusText(r.es)>>)
            ELSE IF r.val = NullValue
            THEN Raise("RuntimeError", "Object with OID not found", sent[1].oid)
            ELSE Return(r.val)

\* C5: a set whose answer carries a non-null error indication fails with the
\* transport error carrying that indication, whatever the error status.
C5_SetErrorIndication ==
    (last.op = "set" /\ sent # <<>> /\ response[1].ei # None) =>
        /\ outcome.status = "raised"
        /\ outcome.detail = <<response[1].ei>>

\* C6: a set_<type> keyword called with (oid, rawValue) ends as
\* convert_to_<type>(rawValue) followed by set(oid, converted) ends: the same
\* exchange and the same outcome for the same answer.
ConvertFor(op, raw) ==
    CASE op = "set_octetstring" -> convert_to_octetstring(raw)
      [] op = "set_integer" -> convert_to_integer(raw)
      [] op = "set_integer32" -> convert_to_integer32(raw)
      [] op = "set_counter32" -> convert_to_counter32(raw)
      [] op = "set_counter64" -> convert_to_counter64(raw)
      [] op = "set_gauge32" -> convert_to_gauge32(raw)
      [] op = "set_unsigned32" -> convert_to_unsigned32(raw)
      [] op = "set_timeticks" -> convert_to_timeticks(raw)

C6_WrapperIsConvertThenSet ==
    (last.op \in SetTypeOps /\ Len(last.args) = 2) =>
        LET c == ConvertFor(last.op, last.args[2]) IN
        IF IsRaised(c) THEN outcome = c /\ sent = <<>>
        ELSE LET r == setRequest(last.args[1], c.value) IN
             /\ sent = r.sent
             /\ outcome = IF r.sent = <<>> THEN r.outcome ELSE SetResult(response[1])

\* C7: a get or a set, after any configuration calls, returns or fails with
\* one of the listed kinds of error.
Taxonomy ==
    {"NotConfigured", "PathNotFound", "UnknownSymbol", "Range", "Format",
     "Transport", "Agent", "ObjectNotFound"}

KindOf(o) ==
    IF o.exc = "RuntimeError"
    THEN CASE o.msg = "No host set" -> "NotConfigured"
           [] o.msg = "Path does not exist" -> "PathNotFound"
           [] o.msg = "Object with OID not found" -> "ObjectNotFound"
           [] o.msg \in {"SNMP GET failed", "SNMP SET failed"} ->
                 IF o.detail[1] \in ErrorIndications THEN "Transport" ELSE "Agent"
    ELSE IF o.exc = "ValueConstraintError" THEN "Range"
    ELSE IF o.exc = "PyAsn1Error" THEN "Format"
    ELSE o.exc

C7_FailuresInTaxonomy ==
    (last.op \in {"get", "set"} /\ outcome.status = "raised") => KindOf(outcome) \in Taxonomy

\* C8: an exchange issued after set_host goes to the host and the port of the
\* most recent set_host call (port 161 when it gave none) and carries the
\* community string of the most recent set_community_string call.
C8_ExchangeTarget ==
    (sent # <<>> /\ hist.set_host # <<>>) =>
        LET x == sent[1]
            h == hist.set_host[1]
        IN  /\ x.host = h.host
            /\ x.port = IF h.port.given THEN h.port.port ELSE DefaultPort
            /\ hist.set_community_string = <<x.community>>

\* C9: _parse_oid takes the text before the first '::' as the module when
\* there is one, else the segments after a leading dot, else an empty module;
\* in the symbolic cases the symbol is the text up to the first '.', followed
\* by the segments after it; every segment is an integer when it parses as
\* one and the unchanged string otherwise; no failure reaches the caller.
ClaimedSymbolic(mib, rest) ==
    LET d == FindDot(rest, 1) IN
    IF d = 0 THEN <<[t |-> "sym", mib |-> mib, sym |-> rest]>>
    ELSE <<[t |-> "sym", mib |-> mib, sym |-> SubSeq(rest, 1, d - 1)]>>
         \o MapTryInt(SplitDots(SubSeq(rest, d + 1, Len(rest))))

ClaimedParse(s) ==
    LET c == FindSep2(s, 1) IN
    IF c # 0 THEN ClaimedSymbolic(SubSeq(s, 1, c - 1), SubSeq(s, c + 2, Len(s)))
    ELSE IF Len(s) > 0 /\ s[1] = "." THEN MapTryInt(SplitDots(Tail(s)))
    ELSE ClaimedSymbolic(<<>>, s)

C9_ParseOid ==
    last.op = "_parse_oid" => outcome = Return(ClaimedParse(last.args[1]))

\* C10: while set_community_string has never been called, every request
\* fails without issuing an exchange and leaves host, port and MIB search
\* path as they were.
C10_NoExchangeBeforeCommunity ==
    [][(hist.set_community_string = <<>> /\ last'.op \in RequestOps) =>
          /\ sent' = <<>>
          /\ outcome'.status = "raised"
          /\ host' = host /\ port' = port /\ mibPath' = mibPath]_vars

C10_Witness ==
    /\ last.op = "get"
    /\ hist.set_host # <<>>
    /\ hist.set_community_string = <<>>
    /\ RaisedWith(outcome, "AttributeError", "SnmpLibrary instance has no attribute")
    /\ sent = <<>>

====
